---- MODULE Spec2Model ----
(***************************************************************************)
(* State-machine model of camera_runtime/src/camera_node.py: the capture   *)
(* node that time-shares one camera (picam2) between triggered recording   *)
(* (main loop + record_clip) and live preview (_enter_live/_exit_live      *)
(* called from the HTTP handler threads), with the upload worker, the      *)
(* retry scanner and the single-slot frame bus.                            *)
(*                                                                         *)
(* Threads are modelled as processes with a program counter each; one      *)
(* model step is one access to shared state (the camera, MODE, the LED     *)
(* mode, the queue directory, the upload queue, the frame bus).  Calls     *)
(* into the camera, the sensor, ffmpeg and the network may raise: every    *)
(* such call draws its outcome from a small set.  File-system calls        *)
(* (unlink, move, glob) are taken to succeed.                              *)
(***************************************************************************)
EXTENDS Integers, Naturals, Sequences, FiniteSets, TLC

\* ---------------------------------------------------------------- bounds
NumHandlers == 2
MaxFeed == 3
StartMs == 1000
MaxAttempts == 3
MaxQueue == 3
MaxFrames == 3
MaxLate == 2
MaxReadErrors == 2

\* ------------------------------------------------- program constants
THRESH_MM == 1000
DEBOUNCE_MS == 200
MIN_FREE_PCT == 10

Handlers == 1..NumHandlers

VARIABLES
    MODE,             \* "RECORD" | "LIVE"                       (line 408)
    LIVE_LOCK,        \* owner of the RLock, 0 when free          (line 407)
    picam2,           \* the camera: [started, config, encoders]  (line 268)
    led_mode,         \* LedController._mode                      (line 180)
    hpc,              \* per HTTP handler thread: position in its request
    ret,              \* per handler: value its _enter_live/_exit_live call returned
    path,             \* per handler: the branch that call returned through
    tpc,              \* main loop: position
    feed,             \* the sensor samples the loop will read: <<[dt, dist], ...>>
    fi,               \* number of samples read so far
    read_errors,      \* number of sensor reads that raised
    now_ms,           \* time of the latest sample
    last_trigger_ms,  \* main(): last_trigger_ms                  (line 679)
    samples,          \* log of the samples read: [t, dist, trig, pct, rec]
    clip,             \* clip being recorded by record_clip (0: none)
    next_clip,        \* clips started so far + 1
    tmp_dir,          \* files in TMP_DIR: <<clip, "h264">> or <<clip, "mp4">>
    queue_dir,        \* clips whose .mp4 is in QUEUE_DIR
    upload_queue,     \* upload_queue: sequence of <<dir, clip>>
    req,              \* per handler: the request it serves ("start", "stop", "mjpeg")
    upc,              \* uploader thread: position
    up_item,          \* uploader thread: file_path taken from upload_queue
    attempts,         \* per clip: log of the outcomes of its POSTs ("ok" | "fail")
    delivered,        \* per clip: uploads the hub answered with 200
    bus_q,            \* FRAMEBUS._q: the handler whose queue is attached, 0 for None
    hq,               \* per handler: the Queue(maxsize=1) its attach() returned
    next_frame,       \* number of the next frame the MJPEG encoder outputs
    received,         \* per handler: log of the frames its q.get() returned
    mark,             \* per handler: next_frame at the time of its attach()
    live_stale,       \* now - LIVE_LAST_ACTIVITY > LIVE_TIMEOUT_SEC
    spc,              \* retry scanner thread: position
    queued,           \* retry scanner thread: the clips its glob listed
    scan_record,      \* retry scanner thread: what its test MODE == "RECORD" gave
    stop_event,       \* stop_event.is_set()                      (line 749)
    late,             \* per handler: iterations its streaming loop began while
                      \* stop_event was set
    lk                \* per thread: the with-block it is in (the locks the
                      \* block takes, outermost first), how many of them it
                      \* holds, and whether it is leaving the block

arbVars == <<MODE, LIVE_LOCK, hpc, req, ret, path>>
loopVars == <<tpc, feed, fi, read_errors, now_ms, last_trigger_ms, samples, clip, next_clip>>
sigVars == <<stop_event, late>>
lockVars == <<lk>>
trigVars == <<loopVars, sigVars, lockVars>>
fileVars == <<tmp_dir, queue_dir, upload_queue>>
scanVars == <<spc, queued, scan_record>>
upVars == <<upc, up_item, attempts, delivered, scanVars>>
busVars == <<bus_q, hq, next_frame, received, mark, live_stale>>
vars == <<arbVars, picam2, led_mode, trigVars, fileVars, upVars, busVars>>

\* ------------------------------------------------------------ the camera
\* Picamera2 as the code uses it: stop(), configure(), start(),
\* start_recording(encoder, output) (attaches the encoder and starts the
\* camera), stop_recording() (stops the camera and its encoders).
CamInit == [started |-> TRUE, config |-> "record", encoders |-> {}]

CamStop(c) == [c EXCEPT !.started = FALSE]

CamConfigure(c, cfg) == [c EXCEPT !.config = cfg]

CamStart(c) == [c EXCEPT !.started = TRUE]

CamStartRecording(c, e) == [c EXCEPT !.started = TRUE, !.encoders = @ \cup {e}]

CamStopRecording(c) == [c EXCEPT !.started = FALSE, !.encoders = {}]

\* configure() raises on a started camera; any camera call may raise.
ConfigureOutcomes(c) == IF c.started THEN {FALSE} ELSE BOOLEAN

LedByQueue_AlwaysIdle(q) == "idle"

\* any(QUEUE_DIR.glob('*.mp4')) -> "error", else "idle"
LedByQueue(q) == IF q # {} THEN "error" ELSE "idle"

\* ------------------------------------------------------------------ Init
FeedItems == [dt : {50, 100, 250}, dist : {800, 1000, 1200}]

RECURSIVE FeedsUpTo(_)
FeedsUpTo(n) ==
    IF n = 0 THEN {<<>>}
    ELSE LET S == FeedsUpTo(n - 1)
         IN  S \cup {Append(f, x) : f \in {g \in S : Len(g) = n - 1}, x \in FeedItems}

\* threshold 1000, debounce 200, [1200, 800, 800, 1200] sampled every 100 ms
ScenarioFeed ==
    <<[dt |-> 100, dist |-> 1200], [dt |-> 100, dist |-> 800],
      [dt |-> 100, dist |-> 800], [dt |-> 100, dist |-> 1200]>>

\* two triggers, outside each other's debounce window
ArbiterFeed == <<[dt |-> 250, dist |-> 800], [dt |-> 250, dist |-> 800]>>

\* the threads of the process: main(), the uploader, the retry scanner, the
\* MJPEG encoder's output thread, LedController._run, and one thread per HTTP
\* request (ThreadingHTTPServer)
LockThreads ==
    {<<"main", 0>>, <<"uploader", 0>>, <<"scanner", 0>>, <<"encoder", 0>>, <<"led_run", 0>>}
    \cup {<<"handler", h>> : h \in Handlers}

\* a thread outside every with-block
NoSection == [sec |-> <<>>, i |-> 0]

InitCommon ==
    /\ lk = [t \in LockThreads |-> NoSection]
    /\ MODE = "RECORD"
    /\ LIVE_LOCK = 0
    /\ picam2 = CamInit
    /\ led_mode = "idle"
    /\ hpc = [h \in Handlers |-> "idle"]
    /\ ret = [h \in Handlers |-> "none"]
    /\ path = [h \in Handlers |-> "none"]
    /\ tpc = "loop"
    /\ fi = 0
    /\ read_errors = 0
    /\ now_ms = StartMs
    /\ last_trigger_ms = 0
    /\ samples = <<>>
    /\ clip = 0
    /\ next_clip = 1
    /\ tmp_dir = {}
    /\ queue_dir = {}
    /\ upload_queue = <<>>
    /\ req = [h \in Handlers |-> "none"]
    /\ upc = "get"
    /\ up_item = <<>>
    /\ attempts = [c \in 1..Len(feed) |-> <<>>]
    /\ delivered = [c \in 1..Len(feed) |-> 0]
    /\ spc = "list"
    /\ queued = {}
    /\ scan_record = FALSE
    /\ bus_q = 0
    /\ hq = [h \in Handlers |-> <<>>]
    /\ next_frame = 1
    /\ received = [h \in Handlers |-> <<>>]
    /\ mark = [h \in Handlers |-> 0]
    /\ live_stale = FALSE
    /\ stop_event = FALSE
    /\ late = [h \in Handlers |-> 0]

\* ------------------------------------------------------- HTTP handlers
LockAvailable_NoLock(h) == TRUE

\* with LIVE_LOCK: (an RLock: free, or already held by this thread)
LockAvailable(h) == LIVE_LOCK = 0 \/ LIVE_LOCK = h

EnterAlreadyLive_Never == FALSE

\* if MODE == "LIVE": return True
EnterAlreadyLive == MODE = "LIVE"

\* if MODE == "RECORD": return True
ExitAlreadyRecord == MODE = "RECORD"

\* where the handler continues after its _enter_live/_exit_live call:
\* do_POST responds; do_GET /api/live/mjpeg attaches to the frame bus after a
\* successful _enter_live and leaves its loop after the _exit_live of a timeout
AfterCall(h, r) ==
    IF req[h] = "mjpeg"
    THEN IF hpc[h] \in {"xl_wait", "xl_stoprec", "xl_stop", "xl_config", "xl_start",
                        "xr_stop", "xr_config", "xr_start"}
         THEN "detach"
         ELSE IF r = "True" THEN "attach" ELSE "idle"
    ELSE "idle"

\* the call returns (or raises): the with-block releases LIVE_LOCK
Return(h, r, p) ==
    /\ hpc' = [hpc EXCEPT ![h] = AfterCall(h, r)]
    /\ ret' = [ret EXCEPT ![h] = r]
    /\ path' = [path EXCEPT ![h] = p]
    /\ LIVE_LOCK' = 0
    /\ UNCHANGED req

Goto(h, pc) ==
    /\ hpc' = [hpc EXCEPT ![h] = pc]
    /\ UNCHANGED <<req, ret, path>>

\* do_POST: /api/live/start -> _enter_live, /api/live/stop -> _exit_live;
\* do_GET: /api/live/mjpeg -> _enter_live
\* (req, ret and path keep the outcome of the thread's previous request until here)
Request(h, kind) ==
    /\ hpc[h] = "idle"
    /\ hpc' = [hpc EXCEPT ![h] = IF kind = "stop" THEN "xl_wait" ELSE "el_wait"]
    /\ req' = [req EXCEPT ![h] = kind]
    /\ ret' = [ret EXCEPT ![h] = "none"]
    /\ path' = [path EXCEPT ![h] = "none"]
    /\ UNCHANGED <<MODE, LIVE_LOCK, picam2, led_mode, trigVars, fileVars, upVars, busVars>>

\* the "ok" member of the JSON body the handler answers with, given the value
\* its call returned: do_POST /api/live/start and do_GET /api/live/mjpeg answer
\* 500 {"ok": False, ...} unless the call returned True (mjpeg then streams);
\* do_POST /api/live/stop answers 200 {"ok": True, "state": ...} always; an
\* exception leaving the call leaves the handler too, and no body is written
ResponseOk(kind, r) ==
    CASE r = "raise" -> "none"
      [] r = "none" -> "none"
      [] kind = "stop" -> "true"
      [] kind = "mjpeg" /\ r = "True" -> "stream"
      [] r = "True" -> "true"
      [] OTHER -> "false"

\* _enter_live: with LIVE_LOCK: if MODE == "LIVE": return True
EnterLiveLock(h) ==
    /\ hpc[h] = "el_wait"
    /\ LockAvailable(h)
    /\ IF EnterAlreadyLive
       THEN Return(h, "True", "already_live")
       ELSE Goto(h, "el_stop") /\ LIVE_LOCK' = h
    /\ UNCHANGED <<MODE, picam2, led_mode, trigVars, fileVars, upVars, busVars>>

\* try: picam2.stop() except: pass
EnterLiveStop(h) ==
    /\ hpc[h] = "el_stop"
    /\ \E ok \in BOOLEAN : picam2' = IF ok THEN CamStop(picam2) ELSE picam2
    /\ Goto(h, "el_config")
    /\ UNCHANGED <<MODE, LIVE_LOCK, led_mode, trigVars, fileVars, upVars, busVars>>

\* live_config = picam2.create_video_configuration(...); picam2.configure(live_config)
\* (outside any try: an exception leaves _enter_live through the with-block)
EnterLiveConfigure(h) ==
    /\ hpc[h] = "el_config"
    /\ \E ok \in ConfigureOutcomes(picam2) :
          IF ok
          THEN /\ picam2' = CamConfigure(picam2, "live")
               /\ Goto(h, "el_start")
               /\ UNCHANGED LIVE_LOCK
          ELSE /\ Return(h, "raise", "raise")
               /\ UNCHANGED picam2
    /\ UNCHANGED <<MODE, led_mode, trigVars, fileVars, upVars, busVars>>

\* try: picam2.start() ... except: -> recovery
EnterLiveStart(h) ==
    /\ hpc[h] = "el_start"
    /\ \E ok \in BOOLEAN :
          IF ok
          THEN picam2' = CamStart(picam2) /\ Goto(h, "el_rec")
          ELSE UNCHANGED picam2 /\ Goto(h, "rb_stop")
    /\ UNCHANGED <<MODE, LIVE_LOCK, led_mode, trigVars, fileVars, upVars, busVars>>

\* picam2.start_recording(LIVE_ENCODER, _MJPEGOutput()); MODE = "LIVE";
\* LIVE_LAST_ACTIVITY = time.monotonic(); led.set_mode("live"); return True
EnterLiveStartRecording(h) ==
    /\ hpc[h] = "el_rec"
    /\ \E ok \in BOOLEAN :
          IF ok
          THEN /\ picam2' = CamStartRecording(picam2, "mjpeg")
               /\ MODE' = "LIVE"
               /\ led_mode' = "live"
               /\ live_stale' = FALSE
               /\ Return(h, "True", "commit")
          ELSE /\ Goto(h, "rb_stop")
               /\ UNCHANGED <<picam2, MODE, led_mode, LIVE_LOCK, live_stale>>
    /\ UNCHANGED <<trigVars, fileVars, upVars, bus_q, hq, next_frame, received, mark>>

\* recovery: picam2.stop()
RollbackStop(h) ==
    /\ hpc[h] = "rb_stop"
    /\ \E ok \in BOOLEAN :
          IF ok
          THEN /\ picam2' = CamStop(picam2)
               /\ Goto(h, "rb_config")
               /\ UNCHANGED LIVE_LOCK
          ELSE /\ Return(h, "False", "rollback_failed")
               /\ UNCHANGED picam2
    /\ UNCHANGED <<MODE, led_mode, trigVars, fileVars, upVars, busVars>>

\* recovery: picam2.configure(record_config); if controls: picam2.set_controls(controls)
RollbackConfigure(h) ==
    /\ hpc[h] = "rb_config"
    /\ \E ok \in ConfigureOutcomes(picam2), ctl \in BOOLEAN :
          IF ok
          THEN /\ picam2' = CamConfigure(picam2, "record")
               /\ IF ctl
                  THEN Goto(h, "rb_start") /\ UNCHANGED LIVE_LOCK
                  ELSE Return(h, "False", "rollback_failed")
          ELSE /\ Return(h, "False", "rollback_failed")
               /\ UNCHANGED picam2
    /\ UNCHANGED <<MODE, led_mode, trigVars, fileVars, upVars, busVars>>

\* recovery: picam2.start(); return False
RollbackStart(h) ==
    /\ hpc[h] = "rb_start"
    /\ \E ok \in BOOLEAN :
          IF ok
          THEN /\ picam2' = CamStart(picam2)
               /\ Return(h, "False", "rollback")
          ELSE /\ Return(h, "False", "rollback_failed")
               /\ UNCHANGED picam2
    /\ UNCHANGED <<MODE, led_mode, trigVars, fileVars, upVars, busVars>>

\* _exit_live: with LIVE_LOCK: if MODE == "RECORD": return True
ExitLiveLock(h) ==
    /\ hpc[h] = "xl_wait"
    /\ LockAvailable(h)
    /\ IF ExitAlreadyRecord
       THEN Return(h, "True", "already_record")
       ELSE Goto(h, "xl_stoprec") /\ LIVE_LOCK' = h
    /\ UNCHANGED <<MODE, picam2, led_mode, trigVars, fileVars, upVars, busVars>>

\* try: picam2.stop_recording() except: pass; LIVE_ENCODER = None
ExitLiveStopRecording(h) ==
    /\ hpc[h] = "xl_stoprec"
    /\ \E ok \in BOOLEAN : picam2' = IF ok THEN CamStopRecording(picam2) ELSE picam2
    /\ Goto(h, "xl_stop")
    /\ UNCHANGED <<MODE, LIVE_LOCK, led_mode, trigVars, fileVars, upVars, busVars>>

\* except Exception: led.set_mode("error"); time.sleep(1.5); -> second attempt
ExitFirstAttemptFailed(h) ==
    /\ led_mode' = "error"
    /\ Goto(h, "xr_stop")
    /\ UNCHANGED <<picam2, MODE, LIVE_LOCK>>

\* picam2.stop()
ExitLiveStop(h) ==
    /\ hpc[h] = "xl_stop"
    /\ \E ok \in BOOLEAN :
          IF ok
          THEN /\ picam2' = CamStop(picam2)
               /\ Goto(h, "xl_config")
               /\ UNCHANGED <<MODE, LIVE_LOCK, led_mode>>
          ELSE ExitFirstAttemptFailed(h)
    /\ UNCHANGED <<trigVars, fileVars, upVars, busVars>>

\* picam2.configure(record_config)  (set_controls failures are swallowed)
ExitLiveConfigure(h) ==
    /\ hpc[h] = "xl_config"
    /\ \E ok \in ConfigureOutcomes(picam2) :
          IF ok
          THEN /\ picam2' = CamConfigure(picam2, "record")
               /\ Goto(h, "xl_start")
               /\ UNCHANGED <<MODE, LIVE_LOCK, led_mode>>
          ELSE ExitFirstAttemptFailed(h)
    /\ UNCHANGED <<trigVars, fileVars, upVars, busVars>>

\* picam2.start(); MODE = "RECORD"; led.set_mode(error|idle); return True
ExitLiveStart(h) ==
    /\ hpc[h] = "xl_start"
    /\ \E ok \in BOOLEAN :
          IF ok
          THEN /\ picam2' = CamStart(picam2)
               /\ MODE' = "RECORD"
               /\ led_mode' = LedByQueue(queue_dir)
               /\ Return(h, "True", "commit")
          ELSE ExitFirstAttemptFailed(h)
    /\ UNCHANGED <<trigVars, fileVars, upVars, busVars>>

\* second attempt: picam2.stop()
RetryStop(h) ==
    /\ hpc[h] = "xr_stop"
    /\ \E ok \in BOOLEAN :
          IF ok
          THEN /\ picam2' = CamStop(picam2)
               /\ Goto(h, "xr_config")
               /\ UNCHANGED LIVE_LOCK
          ELSE /\ Return(h, "False", "unrecoverable")
               /\ UNCHANGED picam2
    /\ UNCHANGED <<MODE, led_mode, trigVars, fileVars, upVars, busVars>>

\* second attempt: picam2.configure(record_config)
RetryConfigure(h) ==
    /\ hpc[h] = "xr_config"
    /\ \E ok \in ConfigureOutcomes(picam2) :
          IF ok
          THEN /\ picam2' = CamConfigure(picam2, "record")
               /\ Goto(h, "xr_start")
               /\ UNCHANGED LIVE_LOCK
          ELSE /\ Return(h, "False", "unrecoverable")
               /\ UNCHANGED picam2
    /\ UNCHANGED <<MODE, led_mode, trigVars, fileVars, upVars, busVars>>

\* second attempt: picam2.start(); MODE = "RECORD"; led.set_mode(...); return True
RetryStart(h) ==
    /\ hpc[h] = "xr_start"
    /\ \E ok \in BOOLEAN :
          IF ok
          THEN /\ picam2' = CamStart(picam2)
               /\ MODE' = "RECORD"
               /\ led_mode' = LedByQueue(queue_dir)
               /\ Return(h, "True", "retry")
          ELSE /\ Return(h, "False", "unrecoverable")
               /\ UNCHANGED <<picam2, MODE, led_mode>>
    /\ UNCHANGED <<trigVars, fileVars, upVars, busVars>>

\* ------------------------------------------------------------ main loop
free_space_ok_Always(pct_free) == TRUE

\* free_space_ok: pct_free > MIN_FREE_PCT
free_space_ok(pct_free) == pct_free > MIN_FREE_PCT

\* if dist < THRESH_MM:
BelowThreshold(dist) == dist < THRESH_MM

DebounceElapsed_Inclusive(now, last) == now - last >= DEBOUNCE_MS

\* if now_ms - last_trigger_ms > DEBOUNCE_MS:
DebounceElapsed(now, last) == now - last > DEBOUNCE_MS

FreePcts == {MIN_FREE_PCT - 1, MIN_FREE_PCT, MIN_FREE_PCT + 1}

\* while not stop_event.is_set(): if MODE == "LIVE": time.sleep(0.1); continue
\* (the loop condition and the MODE test are one step)
TriggerIdleLive ==
    /\ tpc = "loop"
    /\ ~stop_event
    /\ MODE = "LIVE"
    /\ UNCHANGED vars

TriggerPassMode ==
    /\ tpc = "loop"
    /\ ~stop_event
    /\ MODE # "LIVE"
    /\ tpc' = "read"
    /\ UNCHANGED <<arbVars, picam2, led_mode, feed, fi, read_errors, now_ms, last_trigger_ms,
                   samples, clip, next_clip, fileVars, upVars, busVars, sigVars, lockVars, lockVars>>

\* dist = sensor.range; the threshold and debounce tests; last_trigger_ms = now_ms;
\* free_space_ok("/"); led.set_mode("recording")
TriggerRead ==
    /\ tpc = "read"
    /\ fi < Len(feed)
    /\ LET dist == feed[fi + 1].dist
           now == now_ms + feed[fi + 1].dt
           trig == BelowThreshold(dist) /\ DebounceElapsed(now, last_trigger_ms)
       IN  /\ fi' = fi + 1
           /\ now_ms' = now
           /\ last_trigger_ms' = IF trig THEN now ELSE last_trigger_ms
           /\ \E pct_free \in (IF trig THEN FreePcts ELSE {-1}) :
                 LET rec == trig /\ free_space_ok(pct_free)
                 IN  /\ samples' = Append(samples,
                            [t |-> now, dist |-> dist, trig |-> trig,
                             pct |-> pct_free, rec |-> rec])
                     /\ led_mode' = IF rec THEN "recording" ELSE led_mode
                     /\ tpc' = IF rec THEN "rec_start" ELSE "loop"
    /\ UNCHANGED <<arbVars, picam2, feed, read_errors, clip, next_clip, fileVars, upVars,
                   busVars, sigVars, lockVars, lockVars>>

RecordFailed_Uncaught ==
    /\ led_mode' = led_mode
    /\ tpc' = "exited_failed"

TriggerReadRaise_Uncaught ==
    /\ tpc = "read"
    /\ read_errors < MaxReadErrors
    /\ read_errors' = read_errors + 1
    /\ tpc' = "exited_failed"
    /\ UNCHANGED <<arbVars, picam2, led_mode, feed, fi, now_ms, last_trigger_ms,
                   samples, clip, next_clip, fileVars, upVars, busVars, sigVars, lockVars, lockVars>>

\* try: dist = sensor.range except Exception: log(...); time.sleep(0.1); continue
\* (the time the iteration takes is part of the dt of the next sample)
TriggerReadRaise ==
    /\ tpc = "read"
    /\ read_errors < MaxReadErrors
    /\ read_errors' = read_errors + 1
    /\ tpc' = "loop"
    /\ UNCHANGED <<arbVars, picam2, led_mode, feed, fi, now_ms, last_trigger_ms,
                   samples, clip, next_clip, fileVars, upVars, busVars, sigVars, lockVars, lockVars>>

\* the except branch of main(): led.set_mode("error" if any(QUEUE_DIR...) else "idle"); continue
RecordFailed ==
    /\ led_mode' = LedByQueue(queue_dir)
    /\ tpc' = "loop"

\* record_clip: ts = utc_ts(); picam2.start_recording(encoder, str(h264))
RecordStart ==
    /\ tpc = "rec_start"
    /\ clip' = next_clip
    /\ next_clip' = next_clip + 1
    /\ \E ok \in BOOLEAN :
          IF ok
          THEN /\ picam2' = CamStartRecording(picam2, "h264")
               /\ tmp_dir' = tmp_dir \cup {<<next_clip, "h264">>}
               /\ tpc' = "rec_sleep"
               /\ UNCHANGED led_mode
          ELSE /\ RecordFailed
               /\ UNCHANGED <<picam2, tmp_dir>>
    /\ UNCHANGED <<arbVars, feed, fi, read_errors, now_ms, last_trigger_ms, samples,
                   queue_dir, upload_queue, upVars, busVars, sigVars, lockVars, lockVars>>

\* record_clip: time.sleep(REC_DUR); picam2.stop_recording()
RecordStop ==
    /\ tpc = "rec_sleep"
    /\ \E ok \in BOOLEAN :
          IF ok
          THEN /\ picam2' = CamStopRecording(picam2)
               /\ tpc' = "remux"
               /\ UNCHANGED led_mode
          ELSE /\ RecordFailed
               /\ UNCHANGED picam2
    /\ UNCHANGED <<arbVars, feed, fi, read_errors, now_ms, last_trigger_ms, samples, clip,
                   next_clip, fileVars, upVars, busVars, sigVars, lockVars, lockVars>>

\* record_clip: ffmpeg remux, h264.unlink(); main(): upload_queue.put(mp4_path)
RecordRemux ==
    /\ tpc = "remux"
    /\ \E ok \in BOOLEAN :
          IF ok
          THEN /\ tmp_dir' = (tmp_dir \ {<<clip, "h264">>}) \cup {<<clip, "mp4">>}
               /\ upload_queue' = Append(upload_queue, <<"tmp", clip>>)
               /\ tpc' = "led_done"
               /\ UNCHANGED led_mode
          ELSE /\ tmp_dir' = tmp_dir \ {<<clip, "h264">>}
               /\ RecordFailed
               /\ UNCHANGED upload_queue
    /\ UNCHANGED <<arbVars, picam2, feed, fi, read_errors, now_ms, last_trigger_ms, samples,
                   clip, next_clip, queue_dir, upVars, busVars, sigVars, lockVars, lockVars>>

TriggerLedDone_NoReset ==
    /\ tpc = "led_done"
    /\ tpc' = "loop"
    /\ UNCHANGED <<arbVars, picam2, led_mode, feed, fi, read_errors, now_ms, last_trigger_ms, samples,
                   clip, next_clip, fileVars, upVars, busVars, sigVars, lockVars, lockVars>>

\* main(): led.set_mode("error" if any(QUEUE_DIR.glob('*.mp4')) else "idle"); time.sleep(0.05)
TriggerLedDone ==
    /\ tpc = "led_done"
    /\ led_mode' = LedByQueue(queue_dir)
    /\ tpc' = "loop"
    /\ UNCHANGED <<arbVars, picam2, feed, fi, read_errors, now_ms, last_trigger_ms, samples,
                   clip, next_clip, fileVars, upVars, busVars, sigVars, lockVars, lockVars>>

TriggerLoop ==
    \/ TriggerPassMode
    \/ TriggerRead
    \/ RecordStart
    \/ RecordStop
    \/ RecordRemux
    \/ TriggerLedDone

\* ------------------------------------------------------- upload worker
\* the answers to POST /api/v1/clips; 0: timeout or connection error
Responses == {200, 204, 401, 507, 0}

do_upload_AnyAnswer(status_code) == status_code > 0

\* do_upload: if r.status_code == 200: return True; else / except: return False
do_upload(status_code) == status_code = 200

\* the hub's /api/v1/clips answers 200 exactly when it has stored the clip
hub_stored(status_code) == status_code = 200

QueueDirAfterUpload_NoUnlink(ok, moved, dir, c) ==
    IF moved THEN queue_dir \cup {c} ELSE queue_dir

\* QUEUE_DIR after file_path.unlink() (success) or shutil.move(file_path, target)
QueueDirAfterUpload(ok, moved, dir, c) ==
    IF ok /\ dir = "queue" THEN queue_dir \ {c}
    ELSE IF moved THEN queue_dir \cup {c}
    ELSE queue_dir

TmpDirAfterUpload_KeepFailed(ok, moved, dir, c) ==
    IF ok /\ dir = "tmp" THEN tmp_dir \ {<<c, "mp4">>} ELSE tmp_dir

\* TMP_DIR after file_path.unlink() (success) or shutil.move(file_path, target)
TmpDirAfterUpload(ok, moved, dir, c) ==
    IF (ok \/ moved) /\ dir = "tmp" THEN tmp_dir \ {<<c, "mp4">>} ELSE tmp_dir

\* file_path.open("rb") finds the file
FileExists(item) ==
    IF item[1] = "tmp" THEN <<item[2], "mp4">> \in tmp_dir ELSE item[2] \in queue_dir

UploaderFree_Always == TRUE

\* the one uploader thread main() starts is at its upload_queue.get: it has
\* finished the work item it took before (upload_queue.task_done())
UploaderFree == upc = "get"

\* while not stop_event.is_set(): file_path: Path = upload_queue.get(timeout=0.5)
UploaderGet ==
    /\ UploaderFree
    /\ ~stop_event
    /\ upload_queue # <<>>
    /\ up_item' = Head(upload_queue)
    /\ upload_queue' = Tail(upload_queue)
    /\ upc' = "upload"
    /\ UNCHANGED <<arbVars, picam2, led_mode, trigVars, tmp_dir, queue_dir,
                   attempts, delivered, scanVars, busVars>>

\* the logs are kept up to MaxAttempts entries
Logged(log, e) == IF Len(log) < MaxAttempts THEN Append(log, e) ELSE log

\* ok = do_upload(file_path), the POST answered with status_code; on success
\* file_path.unlink() and the LED goes back to idle when QUEUE_DIR was emptied in
\* RECORD mode; on failure the file is moved to QUEUE_DIR unless it is already
\* there; upload_queue.task_done()
UploaderDeliverWith(status_code) ==
    /\ upc = "upload"
    /\ LET dir == up_item[1]
           c == up_item[2]
           exists == FileExists(up_item)
           ok == exists /\ do_upload(status_code)
           moved == ~ok /\ exists /\ dir # "queue"
       IN  /\ status_code \in (IF exists THEN Responses ELSE {-1})
           /\ attempts' = IF exists
                          THEN [attempts EXCEPT ![c] = Logged(@, IF ok THEN "ok" ELSE "fail")]
                          ELSE attempts
           /\ delivered' = IF exists /\ hub_stored(status_code) /\ delivered[c] < MaxAttempts
                           THEN [delivered EXCEPT ![c] = @ + 1] ELSE delivered
           /\ tmp_dir' = TmpDirAfterUpload(ok, moved, dir, c)
           /\ queue_dir' = QueueDirAfterUpload(ok, moved, dir, c)
           /\ led_mode' = IF ok /\ dir = "queue" /\ MODE = "RECORD" /\ queue_dir' = {}
                          THEN "idle" ELSE led_mode
    /\ upc' = "get"
    /\ up_item' = <<>>
    /\ UNCHANGED <<arbVars, picam2, trigVars, upload_queue, scanVars, busVars>>

\* -1: do_upload raised before the POST (the file is gone)
UploaderDeliver == \E status_code \in Responses \cup {-1} : UploaderDeliverWith(status_code)

RECURSIVE SortedSeq(_)
\* sorted([p for p in QUEUE_DIR.glob("*.mp4") if p.is_file()])
SortedSeq(S) ==
    IF S = {} THEN <<>>
    ELSE LET m == CHOOSE x \in S : \A y \in S : x <= y
         IN  <<<<"queue", m>>>> \o SortedSeq(S \ {m})

\* retry_scanner_thread_fn, while not stop_event.is_set():
\* queued = sorted([p for p in QUEUE_DIR.glob("*.mp4") if p.is_file()]);
\* if queued: if MODE == "RECORD": ... else: if MODE == "RECORD": ...
\* (the listing and the test of MODE, before the thread acts on them)
RetryScanList ==
    /\ spc = "list"
    /\ ~stop_event
    /\ Len(upload_queue) + Cardinality(queue_dir) <= MaxQueue
    /\ queued' = queue_dir
    /\ scan_record' = (MODE = "RECORD")
    /\ spc' = "act"
    /\ UNCHANGED <<arbVars, picam2, led_mode, trigVars, fileVars, upc, up_item,
                   attempts, delivered, busVars>>

RetryScanAct_NoResubmit ==
    /\ spc = "act"
    /\ led_mode' = IF scan_record THEN LedByQueue(queued) ELSE led_mode
    /\ spc' = "list"
    /\ queued' = {}
    /\ scan_record' = FALSE
    /\ UNCHANGED <<arbVars, picam2, trigVars, fileVars, upc, up_item,
                   attempts, delivered, busVars>>

\* led.set_mode("error") and for p in queued: upload_queue.put(p), or
\* led.set_mode("idle"), each set_mode only after MODE == "RECORD" was found;
\* then the thread sleeps 30 s
RetryScanAct ==
    /\ spc = "act"
    /\ led_mode' = IF scan_record THEN LedByQueue(queued) ELSE led_mode
    /\ upload_queue' = upload_queue \o SortedSeq(queued)
    /\ spc' = "list"
    /\ queued' = {}
    /\ scan_record' = FALSE
    /\ UNCHANGED <<arbVars, picam2, trigVars, tmp_dir, queue_dir, upc, up_item,
                   attempts, delivered, busVars>>

\* retry_scanner_thread_fn, one scan
RetryScan ==
    \/ RetryScanList
    \/ RetryScanAct

\* ------------------------------------------------------------ frame bus
QueueMaxsize == 1

QueueFull_Unbounded(q) == FALSE

\* queue.Queue(maxsize=1).full()
QueueFull(q) == Len(q) >= QueueMaxsize

FrameBusWrite_KeepOld(q, b) == IF QueueFull(q) THEN q ELSE Append(q, b)

\* _FrameBus.write on the attached queue: if full, get_nowait() drops the old
\* frame; put_nowait(b) stores the new one (queue.Full is swallowed)
FrameBusWrite(q, b) ==
    LET q1 == IF QueueFull(q) THEN Tail(q) ELSE q
    IN  IF QueueFull(q1) THEN q1 ELSE Append(q1, b)

\* _MJPEGOutput.outputframe, called by the running MJPEG encoder:
\* FRAMEBUS.write(frame); LIVE_LAST_ACTIVITY = time.monotonic()
OutputFrame ==
    /\ picam2.started
    /\ "mjpeg" \in picam2.encoders
    /\ next_frame <= MaxFrames
    /\ hq' = IF bus_q = 0 THEN hq
             ELSE [hq EXCEPT ![bus_q] = FrameBusWrite(@, next_frame)]
    /\ next_frame' = next_frame + 1
    /\ live_stale' = FALSE
    /\ UNCHANGED <<arbVars, picam2, led_mode, trigVars, fileVars, upVars,
                   bus_q, received, mark>>

\* more than LIVE_TIMEOUT_SEC pass without a frame (LIVE_LAST_ACTIVITY is
\* read by the streaming loop only)
ActivityTimeout ==
    /\ ~live_stale
    /\ \E h \in Handlers : hpc[h] = "stream"
    /\ live_stale' = TRUE
    /\ UNCHANGED <<arbVars, picam2, led_mode, trigVars, fileVars, upVars,
                   bus_q, hq, next_frame, received, mark>>

StreamAttach_FirstWins(h) ==
    /\ hpc[h] = "attach"
    /\ hq' = [hq EXCEPT ![h] = <<>>]
    /\ bus_q' = IF bus_q = 0 THEN h ELSE bus_q
    /\ mark' = [mark EXCEPT ![h] = next_frame]
    /\ received' = [received EXCEPT ![h] = <<>>]
    /\ late' = [late EXCEPT ![h] = 0]
    /\ Goto(h, "stream")
    /\ UNCHANGED <<MODE, LIVE_LOCK, picam2, led_mode, loopVars, stop_event, lockVars, fileVars, upVars,
                   next_frame, live_stale>>

\* do_GET /api/live/mjpeg after _enter_live: q = FRAMEBUS.attach()
\* (the queue attached before is drained, a fresh Queue(maxsize=1) is attached)
StreamAttach(h) ==
    /\ hpc[h] = "attach"
    /\ hq' = [x \in Handlers |-> IF x = h \/ x = bus_q THEN <<>> ELSE hq[x]]
    /\ bus_q' = h
    /\ mark' = [mark EXCEPT ![h] = next_frame]
    /\ received' = [received EXCEPT ![h] = <<>>]
    /\ late' = [late EXCEPT ![h] = 0]
    /\ Goto(h, "stream")
    /\ UNCHANGED <<MODE, LIVE_LOCK, picam2, led_mode, loopVars, stop_event, lockVars, fileVars, upVars,
                   next_frame, live_stale>>

\* if now - LIVE_LAST_ACTIVITY > LIVE_TIMEOUT_SEC: _exit_live(LED_GLOBAL); break
\* (received and mark log the frames of one streaming loop: they end with it)
StreamTimeout(h) ==
    /\ hpc[h] = "stream"
    /\ live_stale
    /\ Goto(h, "xl_wait")
    /\ received' = [received EXCEPT ![h] = <<>>]
    /\ mark' = [mark EXCEPT ![h] = 0]
    /\ UNCHANGED <<MODE, LIVE_LOCK, picam2, led_mode, trigVars, fileVars, upVars,
                   bus_q, hq, next_frame, live_stale>>

\* frame = q.get(timeout=1.0); self.wfile.write(...)  (a write to a closed
\* connection raises: except Exception: pass; finally: FRAMEBUS.detach())
StreamGet(h) ==
    /\ hpc[h] = "stream"
    /\ ~live_stale
    /\ hq[h] # <<>>
    /\ hq' = [hq EXCEPT ![h] = Tail(@)]
    /\ late' = [late EXCEPT ![h] = IF stop_event /\ @ < MaxLate THEN @ + 1 ELSE @]
    /\ \E sent \in BOOLEAN :
          /\ Goto(h, IF sent THEN "stream" ELSE "detach")
          /\ received' = [received EXCEPT ![h] =
                              IF sent THEN Append(@, Head(hq[h])) ELSE <<>>]
          /\ mark' = [mark EXCEPT ![h] = IF sent THEN @ ELSE 0]
    /\ UNCHANGED <<MODE, LIVE_LOCK, picam2, led_mode, loopVars, stop_event, lockVars, fileVars, upVars,
                   bus_q, next_frame, live_stale>>

\* q.get(timeout=1.0) raises queue.Empty: except Exception: pass
StreamGetEmpty(h) ==
    /\ hpc[h] = "stream"
    /\ ~live_stale
    /\ hq[h] = <<>>
    /\ Goto(h, "detach")
    /\ received' = [received EXCEPT ![h] = <<>>]
    /\ mark' = [mark EXCEPT ![h] = 0]
    /\ UNCHANGED <<MODE, LIVE_LOCK, picam2, led_mode, trigVars, fileVars, upVars,
                   bus_q, hq, next_frame, live_stale>>

StreamDetach_KeepAttached(h) ==
    /\ hpc[h] = "detach"
    /\ hq' = [hq EXCEPT ![h] = <<>>]
    /\ Goto(h, "idle")
    /\ UNCHANGED <<MODE, LIVE_LOCK, picam2, led_mode, trigVars, fileVars, upVars,
                   bus_q, next_frame, received, mark, live_stale>>

\* finally: FRAMEBUS.detach(); return  (the handler's queue goes with the thread)
StreamDetach(h) ==
    /\ hpc[h] = "detach"
    /\ bus_q' = 0
    /\ hq' = [hq EXCEPT ![h] = <<>>]
    /\ Goto(h, "idle")
    /\ UNCHANGED <<MODE, LIVE_LOCK, picam2, led_mode, trigVars, fileVars, upVars,
                   next_frame, received, mark, live_stale>>

Stream(h) ==
    \/ StreamAttach(h)
    \/ StreamTimeout(h)
    \/ StreamGet(h)
    \/ StreamGetEmpty(h)
    \/ StreamDetach(h)

\* ------------------------------------------------------------- shutdown
\* _handle_sig (SIGINT, SIGTERM): stop_event.set()
Signal ==
    /\ ~stop_event
    /\ stop_event' = TRUE
    /\ UNCHANGED <<arbVars, picam2, led_mode, loopVars, late, lockVars, fileVars, upVars, busVars>>

\* main(): the samples of the feed are used up: the sensor reports nothing
\* below the threshold (or its read raises); time.sleep; next iteration
TriggerReadFar ==
    /\ tpc = "read"
    /\ fi = Len(feed)
    /\ tpc' = "loop"
    /\ UNCHANGED <<arbVars, picam2, led_mode, feed, fi, read_errors, now_ms, last_trigger_ms,
                   samples, clip, next_clip, sigVars, lockVars, fileVars, upVars, busVars>>

\* main(): while not stop_event.is_set() ends; finally: led.stop();
\* if MODE == "LIVE": -> picam2.stop_recording(), else -> picam2.stop()
TriggerExit ==
    /\ tpc = "loop"
    /\ stop_event
    /\ tpc' = IF MODE = "LIVE" THEN "cl_stoprec" ELSE "cl_stop"
    /\ UNCHANGED <<arbVars, picam2, led_mode, feed, fi, read_errors, now_ms, last_trigger_ms,
                   samples, clip, next_clip, sigVars, lockVars, fileVars, upVars, busVars>>

\* finally: try: picam2.stop_recording() except Exception: pass
\* ("cl_stop_f": a cleanup call has raised)
CleanupStopRecording ==
    /\ tpc = "cl_stoprec"
    /\ \E ok \in BOOLEAN :
          /\ picam2' = IF ok THEN CamStopRecording(picam2) ELSE picam2
          /\ tpc' = IF ok THEN "cl_stop" ELSE "cl_stop_f"
    /\ UNCHANGED <<arbVars, led_mode, feed, fi, read_errors, now_ms, last_trigger_ms,
                   samples, clip, next_clip, sigVars, lockVars, fileVars, upVars, busVars>>

\* finally: picam2.stop() (except Exception: pass); log("[EXIT] ...")
\* ("exited": the cleanup has finished and none of its calls raised)
CleanupStop ==
    /\ tpc \in {"cl_stop", "cl_stop_f"}
    /\ \E ok \in BOOLEAN :
          /\ picam2' = IF ok THEN CamStop(picam2) ELSE picam2
          /\ tpc' = IF ok /\ tpc = "cl_stop" THEN "exited" ELSE "exited_failed"
    /\ UNCHANGED <<arbVars, led_mode, feed, fi, read_errors, now_ms, last_trigger_ms,
                   samples, clip, next_clip, sigVars, lockVars, fileVars, upVars, busVars>>

\* uploader_thread_fn: while not stop_event.is_set() ends
UploaderExit ==
    /\ upc = "get"
    /\ stop_event
    /\ upc' = "exited"
    /\ UNCHANGED <<arbVars, picam2, led_mode, trigVars, fileVars, up_item,
                   attempts, delivered, scanVars, busVars>>

\* ---------------------------------------------------------------- locks
\* The locks of the process and the order in which each thread takes them.
\* A with-block is the sequence of its acquisitions and releases; between two
\* of them the thread runs code that waits for no other thread.
Acq(l) == <<"acq", l>>
Rel(l) == <<"rel", l>>

\* LedController.set_mode, LedController._run: with self._lock: (one assignment)
SetMode == <<Acq("led"), Rel("led")>>

\* upload_queue.put(p), upload_queue.get(timeout=0.5): the mutex of queue.Queue
\* (unbounded: put never waits for room; get gives up after its timeout)
QueueOp == <<Acq("queue"), Rel("queue")>>

\* _FrameBus.attach, detach, write: with self._lock: (get_nowait, put_nowait)
BusOp == <<Acq("bus"), Rel("bus")>>

\* _enter_live, _exit_live: with LIVE_LOCK: the camera calls and up to two
\* led.set_mode calls (_enter_live: none or line 520; _exit_live: none, line
\* 544, line 549, or lines 549 and 560)
LiveBlocks ==
    {<<Acq("live")>> \o body \o <<Rel("live")>> :
        body \in {<<>>, SetMode, SetMode \o SetMode}}

LockSections_ScannerNested(t) ==
    IF t[1] = "scanner"
    THEN {<<Acq("led"), Acq("live"), Rel("live"), Rel("led")>>, QueueOp}
    ELSE IF t[1] = "handler" THEN LiveBlocks \cup {BusOp}
    ELSE IF t[1] = "encoder" THEN {BusOp}
    ELSE IF t[1] = "led_run" THEN {SetMode}
    ELSE {SetMode, QueueOp}

\* the with-blocks each thread runs
LockSections(t) ==
    IF t[1] = "handler" THEN LiveBlocks \cup {BusOp}
    ELSE IF t[1] = "encoder" THEN {BusOp}
    ELSE IF t[1] = "led_run" THEN {SetMode}
    ELSE {SetMode, QueueOp}

\* thread t holds lock l: it has acquired it more often than released it
Holds(t, l) ==
    Cardinality({j \in 1..lk[t].i : lk[t].sec[j] = Acq(l)})
        > Cardinality({j \in 1..lk[t].i : lk[t].sec[j] = Rel(l)})

Holder(l) == {t \in LockThreads : Holds(t, l)}

otherThanLocks ==
    <<arbVars, picam2, led_mode, loopVars, sigVars, fileVars, upVars, busVars>>

\* a thread reaches a with statement (or a call that takes a lock)
LockEnter(t) ==
    /\ lk[t].sec = <<>>
    /\ \E s \in LockSections(t) : lk' = [lk EXCEPT ![t] = [sec |-> s, i |-> 0]]
    /\ UNCHANGED otherThanLocks

\* the next operation of the block is done; the thread leaves the block after
\* its last one
Advance(t) ==
    lk' = [lk EXCEPT ![t] = IF lk[t].i + 1 = Len(lk[t].sec)
                             THEN NoSection
                             ELSE [@ EXCEPT !.i = @ + 1]]

\* Lock.acquire(): waits while another thread holds the lock
LockAcquire(t) ==
    /\ lk[t].sec # <<>>
    /\ lk[t].sec[lk[t].i + 1][1] = "acq"
    /\ Holder(lk[t].sec[lk[t].i + 1][2]) = {}
    /\ Advance(t)
    /\ UNCHANGED otherThanLocks

\* Lock.release() at the end of the with-block
LockRelease(t) ==
    /\ lk[t].sec # <<>>
    /\ lk[t].sec[lk[t].i + 1][1] = "rel"
    /\ Advance(t)
    /\ UNCHANGED otherThanLocks

\* ------------------------------------------------------ specifications
EnterLive(h) ==
    \/ EnterLiveLock(h)
    \/ EnterLiveStop(h)
    \/ EnterLiveConfigure(h)
    \/ EnterLiveStart(h)
    \/ EnterLiveStartRecording(h)
    \/ RollbackStop(h)
    \/ RollbackConfigure(h)
    \/ RollbackStart(h)

ExitLive(h) ==
    \/ ExitLiveLock(h)
    \/ ExitLiveStopRecording(h)
    \/ ExitLiveStop(h)
    \/ ExitLiveConfigure(h)
    \/ ExitLiveStart(h)
    \/ RetryStop(h)
    \/ RetryConfigure(h)
    \/ RetryStart(h)

\* the arbiter: the main loop against /api/live/start and /api/live/stop handlers
Init ==
    /\ feed = ArbiterFeed
    /\ InitCommon

Next ==
    \/ TriggerIdleLive
    \/ TriggerLoop
    \/ \E h \in Handlers : \E kind \in {"start", "stop"} : Request(h, kind)
    \/ \E h \in Handlers : EnterLive(h) \/ ExitLive(h)

Spec == Init /\ [][Next]_vars

\* the main loop alone, over every sensor feed, with reads that raise
InitTrigger ==
    /\ feed \in FeedsUpTo(MaxFeed) \cup {ScenarioFeed}
    /\ InitCommon

NextTrigger ==
    \/ TriggerLoop
    \/ TriggerReadRaise

SpecTrigger == InitTrigger /\ [][NextTrigger]_vars

\* the upload pipeline: the main loop produces clips, no HTTP request arrives
InitUpload ==
    /\ feed = ArbiterFeed
    /\ InitCommon

NextUpload ==
    \/ TriggerLoop
    \/ UploaderGet
    \/ UploaderDeliver
    \/ RetryScan

SpecUpload == InitUpload /\ [][NextUpload]_vars

\* the upload pipeline with its threads scheduled: the uploader and the retry
\* scanner are daemon threads that keep running, and the hub does not refuse a
\* clip for ever
SpecUploadFair ==
    /\ InitUpload
    /\ [][NextUpload]_vars
    /\ WF_vars(UploaderGet)
    /\ WF_vars(UploaderDeliver)
    /\ WF_vars(RetryScan)
    /\ SF_vars(UploaderDeliverWith(200))

\* the frame relay: /api/live/mjpeg and /api/live/stop handlers against the
\* MJPEG encoder's output thread (the sensor stays above the threshold, so
\* the main loop operates nothing)
InitFrames ==
    /\ feed = <<>>
    /\ InitCommon

NextFrames ==
    \/ \E h \in Handlers : \E kind \in {"mjpeg", "stop"} : Request(h, kind)
    \/ \E h \in Handlers : EnterLive(h) \/ ExitLive(h) \/ Stream(h)
    \/ OutputFrame
    \/ ActivityTimeout

SpecFrames == InitFrames /\ [][NextFrames]_vars

\* an abandoned preview: clients only open /api/live/mjpeg streams and leave;
\* a handler thread inside a call or its streaming loop keeps running, the
\* encoder keeps delivering frames, and time passes
NextAbandon ==
    \/ \E h \in Handlers : Request(h, "mjpeg")
    \/ \E h \in Handlers : EnterLive(h) \/ ExitLive(h) \/ Stream(h)
    \/ OutputFrame
    \/ ActivityTimeout

SpecAbandon ==
    /\ InitFrames
    /\ [][NextAbandon]_vars
    /\ \A h \in Handlers : WF_vars(EnterLive(h) \/ ExitLive(h) \/ Stream(h))
    /\ WF_vars(OutputFrame)
    /\ WF_vars(ActivityTimeout)

\* shutdown: the signal arrives at any moment while one client opens streams
\* (one handler thread at a time); the sensor reports nothing near
NextShutdown ==
    \/ Signal
    \/ TriggerIdleLive
    \/ TriggerPassMode
    \/ TriggerReadFar
    \/ TriggerExit
    \/ CleanupStopRecording
    \/ CleanupStop
    \/ UploaderExit
    \/ Request(1, "mjpeg")
    \/ EnterLive(1) \/ ExitLive(1) \/ Stream(1)
    \/ OutputFrame
    \/ ActivityTimeout

SpecShutdown == InitFrames /\ [][NextShutdown]_vars

\* one trigger below the threshold
SingleFeed == <<[dt |-> 250, dist |-> 800]>>

InitConverge ==
    /\ feed = SingleFeed
    /\ InitCommon

\* the indicator and its setters: the main loop, the uploader, the retry
\* scanner and one client's /api/live/start and /api/live/stop requests
NextIndicator ==
    \/ TriggerIdleLive
    \/ TriggerLoop
    \/ UploaderGet
    \/ UploaderDeliver
    \/ RetryScan
    \/ \E kind \in {"start", "stop"} : Request(1, kind)
    \/ EnterLive(1) \/ ExitLive(1)

SpecIndicator == InitConverge /\ [][NextIndicator]_vars

\* the indicator's setters with every thread scheduled: the main loop, the
\* uploader, the retry scanner and a handler thread inside a call keep running
\* (requests arrive or not)
NextConverge ==
    \/ TriggerIdleLive
    \/ TriggerLoop
    \/ TriggerReadFar
    \/ UploaderGet
    \/ UploaderDeliver
    \/ RetryScan
    \/ \E kind \in {"start", "stop"} : Request(1, kind)
    \/ EnterLive(1) \/ ExitLive(1)

SpecConverge ==
    /\ InitConverge
    /\ [][NextConverge]_vars
    /\ WF_vars(TriggerLoop \/ TriggerReadFar)
    /\ WF_vars(UploaderGet)
    /\ WF_vars(UploaderDeliver)
    /\ WF_vars(RetryScan)
    /\ WF_vars(EnterLive(1) \/ ExitLive(1))

\* the threads and their locks: every thread may enter any of its with-blocks
\* at any time
NextLocks ==
    \E t \in LockThreads : LockEnter(t) \/ LockAcquire(t) \/ LockRelease(t)

SpecLocks == InitUpload /\ [][NextLocks]_vars

\* =============================================================== claims
InTransition(h) == hpc[h] \notin {"idle", "el_wait", "xl_wait"}

\* C1: under every interleaving of enterLive/exitLive calls by concurrent
\* handlers MODE is one of RECORD and LIVE, at most one handler is inside a
\* transition body, and that handler holds LIVE_LOCK (the others wait).
C1_OneTransitionAtATime ==
    /\ MODE \in {"RECORD", "LIVE"}
    /\ Cardinality({h \in Handlers : InTransition(h)}) <= 1
    /\ \A h \in Handlers : InTransition(h) => LIVE_LOCK = h

\* one handler is inside a transition while another waits for the lock
C1_Witness ==
    \E h1, h2 \in Handlers :
        /\ h1 # h2
        /\ InTransition(h1)
        /\ hpc[h2] \in {"el_wait", "xl_wait"}

\* C2 (as claimed): record_clip and the transitions run under one lock: no
\* other thread operates the camera while the main loop's capture is between
\* start_recording and stop_recording, and the capture starts only while no
\* handler holds LIVE_LOCK.
C2_CaptureExcludesTransition ==
    [][/\ (tpc = "rec_sleep" /\ tpc' = "rec_sleep") => picam2' = picam2
       /\ (tpc = "rec_start" /\ tpc' = "rec_sleep") => LIVE_LOCK = 0]_vars

\* C3 (as claimed): whenever the main loop's record session has been started
\* and not yet stopped, MODE is RECORD.
C3_NoCaptureWhileLive ==
    tpc = "rec_sleep" => MODE = "RECORD"

\* C4: _enter_live called when MODE is already LIVE (_exit_live when already
\* RECORD) returns True without touching the camera, MODE or the LED mode;
\* MODE changes only in the committing step of a transition out of the other mode.
C4_Idempotent ==
    [][\A h \in Handlers :
          /\ (\/ hpc[h] = "el_wait" /\ MODE = "LIVE" /\ hpc'[h] # "el_wait"
              \/ hpc[h] = "xl_wait" /\ MODE = "RECORD" /\ hpc'[h] # "xl_wait")
             => /\ hpc'[h] = "idle"
                /\ ret'[h] = "True"
                /\ MODE' = MODE
                /\ led_mode' = led_mode
                /\ picam2' = picam2
          /\ (hpc'[h] # hpc[h] /\ MODE' # MODE)
             => \/ hpc[h] = "el_rec" /\ MODE = "RECORD"
                \/ hpc[h] \in {"xl_start", "xr_start"} /\ MODE = "LIVE"]_vars

\* a second start request has just returned True while MODE was already LIVE
C4_Witness ==
    \E h \in Handlers :
        /\ path[h] = "already_live"
        /\ ret[h] = "True"
        /\ MODE = "LIVE"
        /\ led_mode = "live"

\* C10 (as claimed): when a camera call of _enter_live fails after the record
\* session was stopped (configure, start or start_recording) and the recovery
\* calls do not fail, _enter_live returns False with MODE = RECORD and the
\* camera configured for record and started.
C10_EnterLiveRollsBack ==
    [][\A h \in Handlers :
          (\/ hpc[h] = "el_config" /\ ~picam2.started /\ hpc'[h] = "idle"
           \/ hpc[h] = "rb_start" /\ hpc'[h] = "idle" /\ path'[h] = "rollback")
          => /\ ret'[h] = "False"
             /\ MODE' = "RECORD"
             /\ picam2'.config = "record"
             /\ picam2'.started]_vars

\* time of the last accepted trigger before sample i of the log (0: none)
RECURSIVE LastTrigBefore(_)
LastTrigBefore(i) ==
    IF i <= 1 THEN 0
    ELSE IF samples[i - 1].trig THEN samples[i - 1].t ELSE LastTrigBefore(i - 1)

TrigIndexes == {i \in 1..Len(samples) : samples[i].trig}

\* C5: a sample is accepted as a trigger iff its distance is below 1000 mm and
\* more than 200 ms have passed since the last accepted trigger; other samples
\* leave last_trigger_ms alone.  Of two below-threshold readings the second is
\* refused 50 ms after an accepted one and accepted 250 ms after it, and
\* [1200, 800, 800, 1200] at 100 ms steps is accepted at the first 800 only.
C5_Debounce ==
    /\ \A i \in 1..Len(samples) :
          samples[i].trig <=>
             (samples[i].dist < 1000 /\ samples[i].t - LastTrigBefore(i) > 200)
    /\ last_trigger_ms = LastTrigBefore(Len(samples) + 1)
    /\ \A i \in 1..Len(samples) : samples[i].rec => samples[i].trig
    /\ \A i \in 1..(Len(samples) - 1) :
          (samples[i].trig /\ samples[i + 1].dist = 800)
          => /\ samples[i + 1].t - samples[i].t = 50 => ~samples[i + 1].trig
             /\ samples[i + 1].t - samples[i].t = 250 => samples[i + 1].trig
    /\ (feed = ScenarioFeed /\ fi = Len(feed)) => TrigIndexes = {2}

\* the scenario feed has been read to its end, with one capture started
C5_Witness ==
    /\ feed = ScenarioFeed
    /\ fi = Len(feed)
    /\ tpc = "loop"
    /\ samples[2].rec
    /\ next_clip = 2

\* C6: a qualifying trigger while the free-space percentage is below the minimum
\* calls no record_clip, creates no file, enqueues nothing, leaves the LED mode
\* and the camera alone, and still sets last_trigger_ms to the trigger's time.
C6_LowSpaceSkips ==
    [][(fi' = fi + 1 /\ samples'[fi'].trig /\ samples'[fi'].pct < MIN_FREE_PCT)
       => /\ ~samples'[fi'].rec
          /\ tpc' = "loop"
          /\ clip' = clip
          /\ next_clip' = next_clip
          /\ tmp_dir' = tmp_dir
          /\ queue_dir' = queue_dir
          /\ upload_queue' = upload_queue
          /\ led_mode' = led_mode
          /\ picam2' = picam2
          /\ last_trigger_ms' = samples'[fi'].t
          /\ last_trigger_ms' # last_trigger_ms]_vars

\* a trigger was just skipped for low space, after an earlier capture
C6_Witness ==
    /\ Len(samples) >= 2
    /\ samples[Len(samples)].trig
    /\ samples[Len(samples)].pct < MIN_FREE_PCT
    /\ last_trigger_ms = samples[Len(samples)].t
    /\ tpc = "loop"
    /\ next_clip = 2

C9_SlotHoldsAtMostOne ==
    /\ bus_q # 0 => Len(hq[bus_q]) <= 1
    /\ \A h \in Handlers : Len(hq[h]) <= 1

\* a write has found the attached slot full and replaced its frame
C9_Witness ==
    /\ bus_q # 0
    /\ hpc[bus_q] = "stream"
    /\ mark[bus_q] = 1
    /\ received[bus_q] = <<>>
    /\ hq[bus_q] = <<3>>

StrictlyIncreasing(s) == \A i \in 1..(Len(s) - 1) : s[i] < s[i + 1]

\* C8: the frames a consumer receives are in production order without
\* repetition; the attached slot, when full, holds the newest frame written;
\* a consumer that has emptied the slot has the newest frame as its last; and
\* of F1, F2, F3 written to a consumer that read fewer than three times it has
\* received <<F3>>, <<F1, F3>> or <<F2, F3>>, never all three.
C8_LatestWins ==
    \A h \in Handlers :
        /\ StrictlyIncreasing(received[h])
        /\ \A i \in 1..Len(received[h]) :
              received[h][i] >= mark[h] /\ received[h][i] < next_frame
        /\ (bus_q = h /\ hq[h] # <<>>) => hq[h] = <<next_frame - 1>>
        /\ (bus_q = h /\ hq[h] = <<>> /\ hpc[h] = "stream" /\ next_frame > mark[h])
           => /\ received[h] # <<>>
              /\ received[h][Len(received[h])] = next_frame - 1
        /\ (/\ bus_q = h /\ hq[h] = <<>> /\ hpc[h] = "stream"
            /\ mark[h] = 1 /\ next_frame = 4 /\ Len(received[h]) < 3)
           => received[h] \in {<<3>>, <<1, 3>>, <<2, 3>>}

\* F2 was overwritten unread: the consumer has received F1 and F3 only
C8_Witness ==
    \E h \in Handlers :
        /\ bus_q = h
        /\ hpc[h] = "stream"
        /\ mark[h] = 1
        /\ next_frame = 4
        /\ hq[h] = <<>>
        /\ received[h] = <<1, 3>>

\* C11 (as claimed): when _enter_live fails and its recovery fails too, the call
\* returns False to its caller in that same step (no further attempt is made)
\* and the LED mode is left at "error".
C11_RollbackFailureSignalsError ==
    [][\A h \in Handlers :
          (hpc[h] \in {"rb_stop", "rb_config", "rb_start"}
           /\ path'[h] = "rollback_failed")
          => /\ ret'[h] = "False"
             /\ hpc'[h] = "idle"
             /\ MODE' = "RECORD"
             /\ led_mode' = "error"]_vars

ExitRetrying(h) == hpc[h] \in {"xr_stop", "xr_config", "xr_start"}

ExitFirstAttempt(h) == hpc[h] \in {"xl_stop", "xl_config", "xl_start"}

\* C12 (as claimed): a failing first attempt of _exit_live is followed by one
\* second attempt; when that succeeds the call returns True with MODE = RECORD,
\* when it fails the call returns False with MODE = LIVE and the LED mode at
\* "error"; the second attempt is never started again.
C12_ExitRetriesOnce ==
    [][\A h \in Handlers :
          /\ (~ExitRetrying(h) /\ hpc'[h] = "xr_stop") => ExitFirstAttempt(h)
          /\ (ExitRetrying(h) /\ hpc'[h] # hpc[h])
             => \/ /\ hpc[h] = "xr_stop" /\ hpc'[h] = "xr_config"
                   /\ MODE' = "LIVE"
                \/ /\ hpc[h] = "xr_config" /\ hpc'[h] = "xr_start"
                   /\ MODE' = "LIVE"
                \/ /\ hpc[h] = "xr_start" /\ hpc'[h] \in {"idle", "detach"}
                   /\ ret'[h] = "True" /\ MODE' = "RECORD"
                   /\ picam2'.started /\ picam2'.config = "record"
                \/ /\ hpc'[h] \in {"idle", "detach"}
                   /\ ret'[h] = "False" /\ MODE' = "LIVE"
                   /\ led_mode' = "error"]_vars

Clips ==
    {c \in DOMAIN attempts :
        <<c, "mp4">> \in tmp_dir \/ c \in queue_dir \/ attempts[c] # <<>>}

StreamEndedNoRequest ==
    /\ \A h \in Handlers : hpc[h] = "idle"
    /\ \E h \in Handlers : req[h] = "mjpeg" /\ ret[h] = "True"

\* C16 (as claimed): when MODE is LIVE after the streaming consumer has gone
\* away, MODE eventually is RECORD again unless a further request arrives.
C16_AbandonedLiveReverts ==
    (MODE = "LIVE" /\ StreamEndedNoRequest)
        ~> (MODE = "RECORD" \/ \E h \in Handlers : hpc[h] # "idle")

\* C17 (as claimed): the inactivity clock is restarted only by a frame that
\* goes to a consumer, i.e. is put in an attached slot or read from it (or by
\* entering live mode); a streaming handler that finds the
\* clock expired calls _exit_live and ends its stream; and MODE leaves LIVE only
\* in the _exit_live of a stop request or of such a timeout.
C17_TimeoutTracksSentFrames ==
    [][/\ (live_stale /\ ~live_stale')
          => \/ \E h \in Handlers : Len(received'[h]) > Len(received[h])
             \/ bus_q # 0 /\ hq'[bus_q] # hq[bus_q]
             \/ MODE = "RECORD" /\ MODE' = "LIVE"
       /\ \A h \in Handlers :
             (hpc[h] = "stream" /\ live_stale /\ hpc'[h] # "stream")
             => hpc'[h] = "xl_wait"
       /\ (MODE = "LIVE" /\ MODE' = "RECORD")
          => \E h \in Handlers :
                /\ hpc[h] \in {"xl_start", "xr_start"}
                /\ hpc'[h] # hpc[h]
                /\ req[h] \in {"stop", "mjpeg"}]_vars

\* C18 (as claimed): a request whose _enter_live or _exit_live call returned
\* False is answered with a body whose ok is false, and a body whose ok is true
\* is written only after the call returned True.
C18_FailuresAreExplicit ==
    \A h \in Handlers :
        hpc[h] = "idle"
        => /\ ret[h] = "False" => ResponseOk(req[h], ret[h]) = "false"
           /\ ResponseOk(req[h], ret[h]) = "true" => ret[h] = "True"

\* C19 (as claimed): once stop_event is set, the main loop starts no further
\* sampling iteration, the uploader takes no further work item, and a
\* streaming loop begins at most the one iteration that was pending.
C19_LoopsObserveShutdown ==
    [][/\ stop_event => ~(tpc = "loop" /\ tpc' = "read")
       /\ stop_event => ~(upc = "get" /\ upc' = "upload")
       /\ \A h \in Handlers : late'[h] <= 1]_vars

\* C20 (as claimed): at the moment the cleanup of main() finishes without any
\* of its calls having raised, the camera is stopped and no encoder is attached
\* to it, whatever the handler threads did meanwhile.
C20_CleanupReleasesCamera ==
    [][(tpc # "exited" /\ tpc' = "exited")
       => (~picam2'.started /\ picam2'.encoders = {})]_vars

\* C21 (as claimed): the uploader classifies the answer to a POST as the
\* delivery contract states: after 200 or 204 the file is deleted (it is in
\* neither TMP_DIR nor QUEUE_DIR and the clip is not logged as failed); after
\* any other status, a timeout or a connection error the file is in QUEUE_DIR.
C21_ContractClassification ==
    [][\A status_code \in Responses :
          (UploaderDeliverWith(status_code) /\ FileExists(up_item))
          => LET c == up_item[2]
             IN  /\ <<c, "mp4">> \notin tmp_dir'
                 /\ IF status_code \in {200, 204}
                    THEN c \notin queue_dir'
                    ELSE c \in queue_dir']_vars

\* C22: an _enter_live that finds MODE = RECORD and none of whose camera calls
\* fails ends with MODE = LIVE, the camera started with the MJPEG encoder
\* attached and the LED mode "live"; an _exit_live that finds MODE = LIVE and
\* none of whose camera calls fails ends with MODE = RECORD, the camera started
\* in the record configuration and the LED mode "error" if QUEUE_DIR holds a
\* clip, "idle" otherwise.  Both return True.
C22_SuccessfulTransitions ==
    [][\A h \in Handlers :
          (hpc[h] # "idle" /\ hpc'[h] = "idle" /\ path'[h] = "commit")
          => /\ ret'[h] = "True"
             /\ req[h] = "start"
                => /\ MODE = "RECORD" /\ MODE' = "LIVE"
                   /\ picam2'.started /\ "mjpeg" \in picam2'.encoders
                   /\ picam2'.config = "live"
                   /\ led_mode' = "live"
             /\ req[h] = "stop"
                => /\ MODE = "LIVE" /\ MODE' = "RECORD"
                   /\ picam2'.started /\ picam2'.config = "record"
                   /\ led_mode' = (IF queue_dir' # {} THEN "error" ELSE "idle")]_vars

\* a stop request has just left live mode while a clip waits in QUEUE_DIR
C22_Witness ==
    /\ hpc[1] = "idle" /\ req[1] = "stop" /\ path[1] = "commit"
    /\ MODE = "RECORD"
    /\ queue_dir # {}
    /\ led_mode = "error"
    /\ tpc = "loop"

C24_NoRawFileLeft ==
    tpc \notin {"rec_sleep", "remux"}
    => \A c \in 1..(next_clip - 1) : <<c, "h264">> \notin tmp_dir

\* C25 (as claimed): a retry scan that listed clips in QUEUE_DIR puts every one
\* of them in upload_queue, and sets the LED mode to "error" if it found MODE
\* = RECORD; a scan that listed nothing sets the LED mode to "idle" if it found
\* MODE = RECORD; and a scan never changes the LED mode while MODE is LIVE.
C25_RetryScanIndicator ==
    [][(spc = "act" /\ spc' = "list")
       => /\ Len(upload_queue') = Len(upload_queue) + Cardinality(queued)
          /\ \A c \in queued :
                \E i \in (Len(upload_queue) + 1)..Len(upload_queue') :
                    upload_queue'[i] = <<"queue", c>>
          /\ scan_record
             => led_mode' = (IF queued # {} THEN "error" ELSE "idle")
          /\ MODE = "LIVE" => led_mode' = led_mode]_vars

\* C26: a delivery attempt begins (a work item leaves upload_queue) only when
\* the uploader has completed the attempt before it, and it is the attempt for
\* the item at the head of the queue: no two attempts, for one clip or for
\* two, are in flight at once, also while duplicates of the clip in delivery
\* wait in upload_queue.
C26_AttemptsAreSequential ==
    [][Len(upload_queue') < Len(upload_queue)
       => /\ upc = "get" /\ up_item = <<>>
          /\ upc' = "upload"
          /\ up_item' = Head(upload_queue)
          /\ upload_queue' = Tail(upload_queue)]_vars

\* clip 1 is being posted from QUEUE_DIR while two more work items for it,
\* put by retry scans, wait in upload_queue
C26_Witness ==
    /\ upc = "upload"
    /\ up_item = <<"queue", 1>>
    /\ upload_queue = <<<<"queue", 1>>, <<"queue", 1>>>>
    /\ 1 \in queue_dir

\* C27: when a capture attempt of the main loop is over, on its success path
\* and on each of its failure paths, the loop sets the LED mode to "error" if
\* QUEUE_DIR holds a clip and to "idle" otherwise; between two captures the
\* LED mode is never "recording".
C27_IndicatorAfterCapture ==
    [][/\ (tpc \in {"rec_start", "rec_sleep", "remux", "led_done"} /\ tpc' = "loop")
          => led_mode' = (IF queue_dir' # {} THEN "error" ELSE "idle")
       /\ tpc' \in {"loop", "read"} => led_mode' # "recording"]_vars

\* the capture of clip 2 has just succeeded while clip 1 waits in QUEUE_DIR
C27_Witness ==
    /\ tpc = "loop"
    /\ fi = 2
    /\ clip = 2
    /\ <<2, "mp4">> \in tmp_dir
    /\ 1 \in queue_dir
    /\ led_mode = "error"
    /\ spc = "list"
    /\ MODE = "RECORD"

\* C28 (as claimed): in every reachable state, the LED mode is "error" only if
\* MODE is RECORD and QUEUE_DIR holds a clip.
C28_ErrorMeansRetryStore ==
    led_mode = "error" => (MODE = "RECORD" /\ queue_dir # {})

\* the LED mode that fits MODE and QUEUE_DIR
LedConsistent ==
    led_mode = (IF MODE = "LIVE" THEN "live"
                ELSE IF queue_dir # {} THEN "error" ELSE "idle")

\* C29 (as claimed): in every run in which, from some moment on, MODE and the
\* emptiness of QUEUE_DIR no longer change and no capture runs, the LED mode
\* eventually is, and stays, "live" for MODE = LIVE, "error" for MODE = RECORD
\* with a clip in QUEUE_DIR, "idle" for MODE = RECORD with QUEUE_DIR empty.
\* (Stated for the runs that settle with no request in progress and the last
\* _enter_live/_exit_live call, if any, having returned True.)
C29_IndicatorConverges ==
    \A m \in {"RECORD", "LIVE"} : \A e \in BOOLEAN :
        <>[](/\ MODE = m
             /\ (queue_dir = {}) = e
             /\ tpc \in {"loop", "read"}
             /\ hpc[1] = "idle"
             /\ ret[1] \in {"none", "True"})
        => <>[]LedConsistent

\* C30: a sensor read that raises starts no capture and leaves
\* last_trigger_ms, MODE, the LED mode, upload_queue, the files and the camera
\* as they are; no sample is consumed, and the main loop goes to its next
\* iteration.
C30_ReadErrorIsNoTrigger ==
    [][read_errors' # read_errors
       => /\ tpc = "read" /\ tpc' = "loop"
          /\ last_trigger_ms' = last_trigger_ms
          /\ MODE' = MODE
          /\ led_mode' = led_mode
          /\ upload_queue' = upload_queue
          /\ tmp_dir' = tmp_dir /\ queue_dir' = queue_dir
          /\ clip' = clip /\ next_clip' = next_clip
          /\ samples' = samples /\ fi' = fi
          /\ picam2' = picam2]_vars

\* two reads had raised when the loop read the sample it has just accepted as
\* the trigger of its second capture
C30_Witness ==
    /\ read_errors = 2
    /\ Len(samples) = 2
    /\ samples[1].rec
    /\ samples[2].rec
    /\ tpc = "rec_start"
    /\ last_trigger_ms = samples[2].t

\* C31 (as claimed): on every path of _enter_live and _exit_live, a handler
\* calls picam2.configure only while the camera is stopped and picam2.start
\* only while the camera is not started.
C31_DeviceContract ==
    [][\A h \in Handlers :
          (/\ hpc[h] \in {"el_config", "rb_config", "xl_config", "xr_config",
                          "el_start", "rb_start", "xl_start", "xr_start"}
           /\ hpc'[h] # hpc[h])
          => ~picam2.started]_vars

\* C32: a detach leaves no queue attached; a frame written while no queue is
\* attached is stored in no queue; an attach hands out an empty queue and
\* attaches it; and every frame a consumer receives was written after its
\* attach.
C32_DetachedWritesDiscarded ==
    [][/\ \A h \in Handlers :
             (hpc[h] = "detach" /\ hpc'[h] = "idle") => bus_q' = 0
       /\ (bus_q = 0 /\ next_frame' # next_frame) => hq' = hq
       /\ \A h \in Handlers :
             (hpc[h] = "attach" /\ hpc'[h] = "stream")
             => (bus_q' = h /\ hq'[h] = <<>> /\ mark'[h] = next_frame)
       /\ \A h \in Handlers :
             Len(received'[h]) > Len(received[h])
             => received'[h][Len(received'[h])] >= mark[h]]_vars

\* frames 1 and 2 were written while no queue was attached (no other client
\* ever came); the consumer attached then and has received frame 3 only
C32_Witness ==
    /\ req[2] = "none"
    /\ hpc[1] = "stream"
    /\ bus_q = 1
    /\ mark[1] = 3
    /\ received[1] = <<3>>

\* C33: an attach made while another consumer's queue is attached replaces
\* it: from then on a written frame is put in the attached queue (which then
\* holds that frame alone) and in no other, and the queue of a streaming
\* consumer that is not the attached one never gains a frame.
C33_SecondAttachSupersedes ==
    [][/\ \A a, b \in Handlers :
             (/\ a # b /\ bus_q = a
              /\ hpc[b] = "attach" /\ hpc'[b] = "stream")
             => (bus_q' = b /\ hq'[a] = <<>>)
       /\ next_frame' # next_frame
          => /\ \A h \in Handlers : h # bus_q => hq'[h] = hq[h]
             /\ bus_q # 0 => hq'[bus_q] = <<next_frame>>
       /\ \A h \in Handlers :
             (hpc[h] = "stream" /\ bus_q # h) => Len(hq'[h]) <= Len(hq[h])]_vars

\* consumer 2 attached while consumer 1 was streaming: frame 3, written after
\* that, went to consumer 2 and consumer 1 has received nothing more
C33_Witness ==
    /\ hpc[1] = "stream" /\ hpc[2] = "stream"
    /\ bus_q = 2
    /\ mark[1] = 1 /\ received[1] = <<1>>
    /\ mark[2] = 3 /\ received[2] = <<3>>
    /\ hq[1] = <<>>

\* C34: a qualifying trigger (below the threshold, debounce elapsed) met with
\* a free-space percentage equal to or above MIN_FREE_PCT is not skipped: it
\* sets the LED to recording and calls record_clip.
C34_SkipOnlyBelowMinimum ==
    \A i \in 1..Len(samples) :
        (samples[i].trig /\ samples[i].pct >= MIN_FREE_PCT) => samples[i].rec

Blocked(t) ==
    /\ lk[t].sec # <<>>
    /\ lk[t].sec[lk[t].i + 1][1] = "acq"
    /\ Holder(lk[t].sec[lk[t].i + 1][2]) # {}

\* the locks thread t holds
HeldBy(t) == {l \in {"live", "led", "bus", "queue"} : Holds(t, l)}

\* C36: LIVE_LOCK, LedController._lock, _FrameBus._lock and the mutex of
\* upload_queue are taken in one order (LIVE_LOCK only by a thread that holds
\* nothing, each of the others by a thread that holds nothing or LIVE_LOCK
\* alone), a lock has one holder at most, and there is never a set of threads
\* each of which waits for a lock held inside the set.
C36_DeadlockFree ==
    /\ [](\A l \in {"live", "led", "bus", "queue"} : Cardinality(Holder(l)) <= 1)
    /\ [](~ \E S \in SUBSET LockThreads :
              /\ S # {}
              /\ \A t \in S :
                    Blocked(t) /\ Holder(lk[t].sec[lk[t].i + 1][2]) \subseteq S)
    /\ [][\A t \in LockThreads : \A l \in {"live", "led", "bus", "queue"} :
             (~Holds(t, l) /\ Holds(t, l)')
             => HeldBy(t) \subseteq (IF l = "live" THEN {} ELSE {"live"})]_vars

\* handler 2 waits for LIVE_LOCK, which handler 1 holds while it waits in
\* led.set_mode for the lock main() holds; the encoder is inside
\* FRAMEBUS.write and the uploader inside upload_queue.get
C36_Witness ==
    /\ Blocked(<<"handler", 2>>)
    /\ Holds(<<"handler", 1>>, "live") /\ Blocked(<<"handler", 1>>)
    /\ Holds(<<"main", 0>>, "led")
    /\ Holds(<<"encoder", 0>>, "bus")
    /\ Holds(<<"uploader", 0>>, "queue")

\* C37: whenever LIVE_LOCK is free, MODE = "RECORD" implies the camera is
\* started under the record configuration with no MJPEG encoder attached, and
\* MODE = "LIVE" implies it is started under the live configuration with the
\* MJPEG encoder attached - also after _enter_live or _exit_live has failed.
C37_ModeDeviceAgree ==
    LIVE_LOCK = 0 =>
        /\ MODE = "RECORD" =>
              (picam2.started /\ picam2.config = "record" /\ "mjpeg" \notin picam2.encoders)
        /\ MODE = "LIVE" =>
              (picam2.started /\ picam2.config = "live" /\ "mjpeg" \in picam2.encoders)

\* C38: the hub stores a clip once at most, whatever the interleaving of
\* main()'s puts, the retry scanner's re-submissions and the uploader's steps;
\* when the uploader handles a work item of a clip that was delivered before,
\* nothing is delivered, TMP_DIR and QUEUE_DIR stay as they are and the LED
\* mode is not changed.
C38_DeliveredAtMostOnce ==
    /\ [](\A c \in DOMAIN delivered : delivered[c] <= 1)
    /\ [][(upc = "upload" /\ upc' = "get" /\ delivered[up_item[2]] >= 1)
          => /\ delivered' = delivered
             /\ tmp_dir' = tmp_dir
             /\ queue_dir' = queue_dir
             /\ led_mode' = led_mode]_vars

\* the uploader has taken a second work item of clip 1, which the hub stored
\* on an earlier attempt and whose file is deleted
C38_Witness ==
    /\ upc = "upload"
    /\ up_item = <<"queue", 1>>
    /\ delivered[1] = 1
    /\ ~FileExists(up_item)

\* C39: when consumer a, whose queue was replaced by consumer b's attach,
\* detaches at the end of its stream while b is still streaming, b's queue
\* stays attached, so that b goes on receiving the frames written afterwards.
C39_SupersededDetachHarmless ==
    [][\A a, b \in Handlers :
          (/\ a # b
           /\ hpc[a] = "detach" /\ hpc'[a] = "idle"
           /\ bus_q = b /\ hpc[b] = "stream")
          => bus_q' = b]_vars

\* C40: while record_clip runs (from led.set_mode("recording") to the end of
\* the capture) the LED mode is "recording": no other thread changes it.
C40_RecordingThroughoutCapture ==
    tpc \in {"rec_start", "rec_sleep", "remux"} => led_mode = "recording"

====
